---- MODULE Spec2Model ----
(***************************************************************************)
(* Model of the DrawingApp component of src/app/page.tsx (lines 9-345; the *)
(* second copy at 347-659 has the same logic, src/unnamed/part_000 is an   *)
(* older variant with the same undo and redo).                             *)
(*                                                                         *)
(* The bitmap of the <canvas> element is modelled by the list of the paint *)
(* calls that changed it since it was last blank, so two equal lists are   *)
(* equal bitmaps.  The stroke colour is not modelled (it stays the initial *)
(* "#000000").  A data URL is a record: the empty string "" is EmptySrc, a *)
(* PNG produced by toDataURL is [kind |-> "png", ops |-> <bitmap>], so the *)
(* encoding of a blank canvas differs from "".  The layer objects live in  *)
(* a heap, because the code copies the layers array shallowly and assigns  *)
(* the data field of the shared objects.                                   *)
(*                                                                         *)
(* Every handler runs to completion and React re-renders before the next   *)
(* event, so a handler reads the current state; an img.onload callback     *)
(* reads the layers array and the activeLayer of the render that created   *)
(* the Image.                                                              *)
(***************************************************************************)
EXTENDS Integers, Sequences, FiniteSets, TLC

\* ------------------------------------------------------------------ bounds
MaxOps == 2
MaxGestures == 2
MaxObjs == 2
MaxPending == 2
MaxPath == 2
MaxLayers == 3
MaxErase == 3

\* --------------------------------------------------------- program constants
tools == {"brush", "rectangle", "circle", "eraser"}
InitBrushSize == 5

\* the range of the size slider: min="1" max={maxBrushSize}
MinBrushSize == 1
maxBrushSize == 30
BrushSizes == {MinBrushSize, InitBrushSize, maxBrushSize}

\* The surface's bounding rectangle (getBoundingClientRect) and the pointer
\* positions the environment produces, in client coordinates: presses at
\* PtA, moves and releases at PtB.
Rect == [left |-> 1, top |-> 1]
PtA == <<2, 2>>
PtB == <<4, 3>>

\* where a second finger rests while the first one moves and lifts
PtC == <<6, 5>>

VARIABLES
  isDrawing,    \* useState(false)
  tool,         \* useState("brush")
  brushSize,    \* useState(5)
  heap,         \* the layer objects {id, name, data}
  layers,       \* useState([...]): sequence of references into heap
  activeLayer,  \* useState(0): 0-based index into layers
  history,      \* useState<string[]>([])
  redoStack,    \* useState<string[]>([])
  startPos,     \* useState(null): <<>> is null, else <<x, y>>
  canvas,       \* the bitmap of the <canvas> element
  path,         \* the 2D context's current path
  pending,      \* Image objects whose load event has not fired yet, in issue order
  threw,        \* a TypeError was thrown by indexing outside the layers array
  mounted,      \* FALSE once an effect threw and React unmounted the component
  lastCmd,      \* history variable: the command that ran last, the state it ran in, its event
  nGestures,    \* history variable: the number of presses so far
  phase,        \* history variable: progress through gestures, undos, redos; layer selected
  recorded,     \* history variable: the Undo Stack when the gestures ended
  latest        \* history variable: src of the most recently issued decode

prog == <<isDrawing, tool, brushSize, heap, layers, activeLayer, history, redoStack,
          startPos, canvas, path, pending, threw, mounted>>

vars == <<isDrawing, tool, brushSize, heap, layers, activeLayer, history, redoStack,
          startPos, canvas, path, pending, threw, mounted,
          lastCmd, nGestures, phase, recorded, latest>>

\* ------------------------------------------------------------ data encoding
EmptySrc == [kind |-> "empty", ops |-> <<>>]

toDataURL(c) == [kind |-> "png", ops |-> c]

\* new Image(); img.src = src: the load event fires only for a non-empty src
\* (an empty src makes the image broken and fires error, which has no handler).
Loads(src) == src.kind = "png"

drawImage(src) == src.ops

\* ---------------------------------------------------------------- events
Null == <<>>

MouseEvent(c) == [type |-> "mouse", touches |-> <<>>, changedTouches |-> <<>>, client |-> c]

TouchEvent(t, ch) == [type |-> "touch", touches |-> t, changedTouches |-> ch, client |-> Null]

NoEvent == [type |-> "none", touches |-> <<>>, changedTouches |-> <<>>, client |-> Null]

MouseDownEvents == {MouseEvent(PtA)}
MouseMoveEvents == {MouseEvent(PtB)}
MouseUpEvents == {MouseEvent(PtB)}

\* touchstart / touchmove: at least one active touch
TouchStartEvents == {TouchEvent(<<PtA>>, <<PtA>>), TouchEvent(<<PtA, PtB>>, <<PtB>>)}
TouchMoveEvents == {TouchEvent(<<PtB>>, <<PtB>>), TouchEvent(<<PtB, PtA>>, <<PtB>>)}

\* touchend: the ended touch is in changedTouches
TouchEndEvents == {TouchEvent(<<>>, <<PtB>>)}

\* The pointer events with more than one button or finger.  A press: a button
\* goes down at PtA, or at PtB (a second button while the first is held); a
\* finger lands at PtA, or a second finger lands at PtC when the first one has
\* moved to PtB.  touches lists the fingers on the surface in the order they
\* landed, changedTouches the finger the event is about.
PointerDownEvents ==
  {MouseEvent(PtA), MouseEvent(PtB),
   TouchEvent(<<PtA>>, <<PtA>>), TouchEvent(<<PtB, PtC>>, <<PtC>>)}

PointerMoveEvents == {MouseEvent(PtB), TouchEvent(<<PtB>>, <<PtB>>)}

\* A release: the button goes up at PtB; the finger lifts at PtB, alone or
\* while another finger still rests at PtC.
PointerUpEvents ==
  {MouseEvent(PtB), TouchEvent(<<>>, <<PtB>>), TouchEvent(<<PtC>>, <<PtB>>)}

PointerLeaveEvents == {MouseEvent(PtB)}

\* two samples of a moving mouse
EraserMoveEvents == {MouseEvent(PtB), MouseEvent(PtC)}

\* events without a coordinate source: a touch event whose touches and
\* changedTouches are both empty, and a handler called with no event
BareEvents == {TouchEvent(<<>>, <<>>), NoEvent}

getEventPosOrigin(e, sp) ==
  IF e.type = "touch" /\ Len(e.touches) > 0
    THEN <<e.touches[1][1] - Rect.left, e.touches[1][2] - Rect.top>>
  ELSE IF e.type = "touch" /\ Len(e.changedTouches) > 0
    THEN <<e.changedTouches[1][1] - Rect.left, e.changedTouches[1][2] - Rect.top>>
  ELSE IF e.type = "mouse"
    THEN <<e.client[1] - Rect.left, e.client[2] - Rect.top>>
  ELSE <<0, 0>>

getEventPos(e, sp) ==
  IF e.type = "touch" /\ Len(e.touches) > 0
    THEN <<e.touches[1][1] - Rect.left, e.touches[1][2] - Rect.top>>
  ELSE IF e.type = "touch" /\ Len(e.changedTouches) > 0
    THEN <<e.changedTouches[1][1] - Rect.left, e.changedTouches[1][2] - Rect.top>>
  ELSE IF e.type = "mouse"
    THEN <<e.client[1] - Rect.left, e.client[2] - Rect.top>>
  ELSE IF sp # Null THEN sp ELSE <<0, 0>>

\* ---------------------------------------------------------------- painting
PathPt(p) == [k |-> "pt", p |-> p, r2 |-> 0]

\* ctx.arc(x, y, Math.hypot(dx, dy), 0, 2 PI): the radius is kept as its square
ArcPath(a, p) ==
  <<[k |-> "arc", p |-> a,
     r2 |-> (p[1] - a[1]) * (p[1] - a[1]) + (p[2] - a[2]) * (p[2] - a[2])]>>

\* a path has something to stroke when it holds a segment or an arc of non-zero length
HasLine(pth) ==
  \/ \E i \in 1 .. Len(pth) : pth[i].k = "arc" /\ pth[i].r2 > 0
  \/ \E i \in 1 .. Len(pth) - 1 : pth[i].p # pth[i + 1].p

\* ctx.lineTo(x, y); ctx.stroke() with ctx.lineWidth = brushSize
StrokeOp(pth) == [op |-> "stroke", pts |-> pth, width |-> brushSize]

ClearRectOpCorner(p, s) ==
  [op |-> "clearRect",
   pts |-> <<PathPt(<<2 * p[1] - 2 * s, 2 * p[2] - 2 * s>>), PathPt(<<2 * s, 2 * s>>)>>,
   width |-> 0]

\* ctx.clearRect(x - s/2, y - s/2, s, s), in half-pixel units to stay in the integers
ClearRectOp(p, s) ==
  [op |-> "clearRect",
   pts |-> <<PathPt(<<2 * p[1] - s, 2 * p[2] - s>>), PathPt(<<2 * s, 2 * s>>)>>,
   width |-> 0]

\* ctx.strokeRect(x, y, offsetX - x, offsetY - y)
StrokeRectOp(a, p) ==
  [op |-> "strokeRect", pts |-> <<PathPt(a), PathPt(<<p[1] - a[1], p[2] - a[2]>>)>>,
   width |-> brushSize]

\* A paint call changes the bitmap unless it has nothing to paint: clearing a
\* blank bitmap, stroking a path without a line, a rectangle of width and height 0.
Marks(c, op) ==
  CASE op.op = "clearRect"  -> c # <<>>
    [] op.op = "stroke"     -> HasLine(op.pts)
    [] op.op = "strokeRect" -> op.pts[2].p # <<0, 0>>
    [] OTHER                -> TRUE

Paint(c, op) == IF Marks(c, op) THEN Append(c, op) ELSE c

\* ---------------------------------------------------------------- helpers
InRange(ls, i) == 0 <= i /\ i < Len(ls)

ActiveRef == layers[activeLayer + 1]

ActiveData == heap[ActiveRef].data

SetData(h, ref, d) == [h EXCEPT ![ref].data = d]

Front(s) == SubSeq(s, 1, Len(s) - 1)

Last(s) == s[Len(s)]

Remove(s, i) == SubSeq(s, 1, i - 1) \o SubSeq(s, i + 1, Len(s))

\* const img = new Image(); img.src = src; img.onload = callback closing over
\* the layers array and activeLayer of the render that issued it.
Issue(kind, src) ==
  IF Loads(src)
    THEN Append(pending, [kind |-> kind, src |-> src, layers |-> layers, activeLayer |-> activeLayer])
    ELSE pending

\* the display name `Layer ${newId}`
LayerName(n) == <<"Layer", n>>

NoCmd == [cmd |-> "mount", dragging |-> FALSE, redo |-> 0]

Init ==
  /\ isDrawing = FALSE
  /\ tool = "brush"
  /\ brushSize = InitBrushSize
  /\ heap = <<[id |-> 1, name |-> LayerName(1), data |-> EmptySrc]>>
  /\ layers = <<1>>
  /\ activeLayer = 0
  /\ history = <<>>
  /\ redoStack = <<>>
  /\ startPos = Null
  /\ canvas = <<>>
  /\ path = <<>>
  /\ pending = <<>>
  /\ threw = FALSE
  /\ mounted = TRUE
  /\ lastCmd = NoCmd
  /\ nGestures = 0
  /\ phase = "gestures"
  /\ recorded = <<>>
  /\ latest = EmptySrc

\* ---------------------------------------------------------------- handlers
\* startDrawing: press (mousedown / touchstart)
startDrawing(e) ==
  LET pos == getEventPos(e, startPos) IN
  /\ mounted
  /\ path' = IF tool = "brush" THEN <<PathPt(pos)>> ELSE path
  /\ startPos' = pos
  /\ isDrawing' = TRUE
  /\ UNCHANGED <<tool, brushSize, heap, layers, activeLayer, history, redoStack,
                 canvas, pending, threw, mounted>>

DraggingAlways == TRUE

\* the guard of draw and endDrawing: if (!isDrawing || !startPos) return
Dragging == isDrawing /\ startPos # Null

\* draw: move (mousemove / touchmove)
draw(e) ==
  LET pos == getEventPos(e, startPos) IN
  /\ mounted
  /\ IF ~Dragging
       THEN UNCHANGED <<path, canvas>>
     ELSE IF tool = "brush"
       THEN /\ path' = Append(path, PathPt(pos))
            /\ canvas' = Paint(canvas, StrokeOp(path'))
     ELSE IF tool = "eraser"
       THEN /\ canvas' = Paint(canvas, ClearRectOp(pos, brushSize))
            /\ path' = path
     ELSE UNCHANGED <<path, canvas>>
  /\ UNCHANGED <<isDrawing, tool, brushSize, heap, layers, activeLayer, history,
                 redoStack, startPos, pending, threw, mounted>>

\* endDrawing, lines 137-148: the shape tools paint at release
ShapePath(pos) ==
  IF tool = "rectangle" THEN <<>>
  ELSE IF tool = "circle" THEN ArcPath(startPos, pos)
  ELSE path

ShapeCanvas(pos) ==
  IF tool = "rectangle" THEN Paint(canvas, StrokeRectOp(startPos, pos))
  ELSE IF tool = "circle" THEN Paint(canvas, StrokeOp(ArcPath(startPos, pos)))
  ELSE canvas

\* endDrawing, line 151: newLayers[activeLayer].data = canvas.toDataURL()
EndLayerData(h, c) == SetData(h, ActiveRef, toDataURL(c))

EndHistoryDrop(h, c) == h

\* endDrawing, line 154: setHistory([...history, canvas.toDataURL()])
EndHistory(h, c) == Append(h, toDataURL(c))

EndRedoStackKeep(rs) == rs

\* endDrawing, line 155: setRedoStack([])
EndRedoStack(rs) == <<>>

\* endDrawing: release (mouseup / touchend) and pointer-leave (mouseleave)
endDrawing(e) ==
  LET pos == IF e.type # "none" THEN getEventPos(e, startPos) ELSE startPos IN
  /\ mounted
  /\ IF ~Dragging
       THEN UNCHANGED <<isDrawing, heap, layers, history, redoStack, startPos, canvas, path, threw>>
     ELSE /\ path' = ShapePath(pos)
          /\ canvas' = ShapeCanvas(pos)
          /\ IF ~InRange(layers, activeLayer)
               THEN \* newLayers[activeLayer] is undefined: TypeError before any setState
                    /\ threw' = TRUE
                    /\ UNCHANGED <<isDrawing, heap, layers, history, redoStack, startPos>>
               ELSE /\ heap' = EndLayerData(heap, canvas')
                    /\ layers' = layers
                    /\ history' = EndHistory(history, canvas')
                    /\ redoStack' = EndRedoStack(redoStack)
                    /\ isDrawing' = FALSE
                    /\ startPos' = Null
                    /\ threw' = threw
  /\ UNCHANGED <<tool, brushSize, activeLayer, pending, mounted>>

\* the handlers of the canvas element, line 270
MouseDown == \E e \in MouseDownEvents : startDrawing(e)
MouseMove == \E e \in MouseMoveEvents : draw(e)
MouseUp == \E e \in MouseUpEvents : endDrawing(e)
MouseLeave == \E e \in MouseUpEvents : endDrawing(e)
TouchStart == \E e \in TouchStartEvents : startDrawing(e)
TouchMove == \E e \in TouchMoveEvents : draw(e)
TouchEnd == \E e \in TouchEndEvents : endDrawing(e)

handleToolChange ==
  /\ mounted
  /\ \E t \in tools : tool' = t
  /\ UNCHANGED <<isDrawing, brushSize, heap, layers, activeLayer, history, redoStack,
                 startPos, canvas, path, pending, threw, mounted>>

\* handleBrushSizeChange, line 167, called by the slider of line 321
handleBrushSizeChange ==
  /\ mounted
  /\ \E size \in BrushSizes : brushSize' = size
  /\ UNCHANGED <<isDrawing, tool, heap, layers, activeLayer, history, redoStack,
                 startPos, canvas, path, pending, threw, mounted>>

NewLayerSameId(ls) == [id |-> Len(ls), name |-> LayerName(Len(ls)), data |-> EmptySrc]

\* addLayer, lines 171-172: const newId = layers.length + 1 and the new object
NewLayer(ls) == [id |-> Len(ls) + 1, name |-> LayerName(Len(ls) + 1), data |-> EmptySrc]

addLayer ==
  /\ mounted
  /\ heap' = Append(heap, NewLayer(layers))
  /\ layers' = Append(layers, Len(heap) + 1)
  /\ UNCHANGED <<isDrawing, tool, brushSize, activeLayer, history, redoStack,
                 startPos, canvas, path, pending, threw, mounted>>

\* selectLayer(index) and, when activeLayer changes, the effect of lines 37-49:
\* assigning canvas.width blanks the bitmap and resets the path, then loadLayer.
selectLayer(index) ==
  /\ mounted
  /\ activeLayer' = index
  /\ IF index = activeLayer
       THEN UNCHANGED <<canvas, path, pending, threw, mounted>>
       ELSE /\ canvas' = <<>>
            /\ path' = <<>>
            /\ IF InRange(layers, index)
                 THEN /\ pending' =
                           IF Loads(heap[layers[index + 1]].data)
                             THEN Append(pending, [kind |-> "load",
                                                   src |-> heap[layers[index + 1]].data,
                                                   layers |-> layers, activeLayer |-> index])
                             ELSE pending
                      /\ UNCHANGED <<threw, mounted>>
                 ELSE \* layers[activeLayer] is undefined inside the effect
                      /\ threw' = TRUE
                      /\ mounted' = FALSE
                      /\ pending' = pending
  /\ UNCHANGED <<isDrawing, tool, brushSize, heap, layers, history, redoStack, startPos>>

\* the layer buttons are rendered from layers.map, so the UI passes an existing index
SelectLayer == \E index \in 0 .. Len(layers) - 1 : selectLayer(index)

\* the command called with any integer
SelectLayerAny == \E index \in -1 .. MaxObjs : selectLayer(index)

UndoEmptyNever(h) == FALSE

\* undo, line 180: if (history.length === 0) return
UndoEmpty(h) == h = <<>>

\* undo, line 187: setRedoStack([layers[activeLayer].data, ...redoStack])
UndoRedoStack(d, rs) == <<d>> \o rs

UndoSrcNone(newHistory) == EmptySrc

\* undo, line 189: img.src = newHistory[newHistory.length - 1] || ""
UndoSrc(newHistory) == IF newHistory = <<>> THEN EmptySrc ELSE Last(newHistory)

undo ==
  /\ mounted
  /\ IF UndoEmpty(history)
       THEN UNCHANGED <<history, redoStack, pending, threw>>
       ELSE /\ history' = Front(history)
            /\ IF ~InRange(layers, activeLayer)
                 THEN \* layers[activeLayer] is undefined: TypeError after setHistory
                      /\ threw' = TRUE
                      /\ UNCHANGED <<redoStack, pending>>
                 ELSE /\ redoStack' = UndoRedoStack(ActiveData, redoStack)
                      /\ pending' = Issue("undo", UndoSrc(history'))
                      /\ threw' = threw
  /\ UNCHANGED <<isDrawing, tool, brushSize, heap, layers, activeLayer, startPos,
                 canvas, path, mounted>>

\* redo, line 201: if (redoStack.length === 0) return
RedoEmpty(rs) == rs = <<>>

\* redo, line 205: const next = redoStack[0]
RedoNext(rs) == rs[1]

\* redo, line 206: redoStack.slice(1)
RedoRest(rs) == Tail(rs)

redo ==
  /\ mounted
  /\ IF RedoEmpty(redoStack)
       THEN UNCHANGED <<history, redoStack, pending>>
       ELSE /\ redoStack' = RedoRest(redoStack)
            /\ history' = Append(history, RedoNext(redoStack))
            /\ pending' = Issue("redo", RedoNext(redoStack))
  /\ UNCHANGED <<isDrawing, tool, brushSize, heap, layers, activeLayer, startPos,
                 canvas, path, threw, mounted>>

clearCanvas ==
  /\ mounted
  /\ canvas' = <<>>
  /\ IF InRange(layers, activeLayer)
       THEN /\ heap' = SetData(heap, ActiveRef, EmptySrc)
            /\ layers' = layers
            /\ threw' = threw
       ELSE /\ threw' = TRUE
            /\ UNCHANGED <<heap, layers>>
  /\ UNCHANGED <<isDrawing, tool, brushSize, activeLayer, history, redoStack,
                 startPos, path, pending, mounted>>

\* which pending image fires its load event next: the platform gives no order
\* between the decodes of different Image objects
Ready(p) == 1 .. Len(p)

\* img.onload of undo / redo (lines 190-196, 211-217): setLayers(newLayers)
\* with newLayers a copy of the layers array the callback closed over
OnloadLayers(closed, current) == closed

\* img.onload of undo, redo and loadLayer
ImgOnload ==
  /\ mounted
  /\ \E i \in Ready(pending) :
       LET r == pending[i] IN
       /\ pending' = Remove(pending, i)
       /\ canvas' = drawImage(r.src)
       /\ IF r.kind = "load"
            THEN UNCHANGED <<heap, layers, threw>>
          ELSE IF InRange(r.layers, r.activeLayer)
            THEN /\ heap' = SetData(heap, r.layers[r.activeLayer + 1], r.src)
                 /\ layers' = OnloadLayers(r.layers, layers)
                 /\ threw' = threw
            ELSE /\ threw' = TRUE
                 /\ UNCHANGED <<heap, layers>>
  /\ UNCHANGED <<isDrawing, tool, brushSize, activeLayer, history, redoStack,
                 startPos, path, mounted>>

OnerrorCanvasDrawn(c, src) == drawImage(src)

\* undo, redo and loadLayer set img.onload only (lines 67, 190, 211): when the
\* decode fails the error event finds no handler and the bitmap stays
OnerrorCanvas(c, src) == c

\* the decode of a pending image fails: its load event never fires
ImgOnerror ==
  /\ mounted
  /\ \E i \in Ready(pending) :
       /\ pending' = Remove(pending, i)
       /\ canvas' = OnerrorCanvas(canvas, pending[i].src)
  /\ UNCHANGED <<isDrawing, tool, brushSize, heap, layers, activeLayer, history,
                 redoStack, startPos, path, threw, mounted>>

\* ------------------------------------------------------------ specifications
\* The bounds of the model, on the state a step leads to.
Bounded ==
  /\ Len(canvas') <= MaxOps
  /\ Len(path') <= MaxPath
  /\ Len(pending') <= MaxPending
  /\ Len(heap') <= MaxObjs

\* lastCmd: the command, and what it found: a gesture in progress (for the
\* pointer events), the length of the Redo Stack (for release, leave and redo)
Log(c) ==
  lastCmd' = [cmd |-> c,
              dragging |-> c \in {"move", "release", "leave"} /\ isDrawing,
              redo |-> IF c \in {"release", "leave", "redo"} THEN Len(redoStack) ELSE 0]

\* One step of the event loop: handler A runs to completion and lastCmd records it.
Step(A, c) ==
  A /\ Bounded /\ Log(c) /\ UNCHANGED <<nGestures, phase, recorded, latest>>

\* A press, counted so that the model stays finite.
Press(A) ==
  /\ nGestures < MaxGestures
  /\ A /\ Bounded /\ Log("press")
  /\ nGestures' = nGestures + 1
  /\ UNCHANGED <<phase, recorded, latest>>

\* Free interleaving of the pointer events, the tool buttons, undo, redo and the
\* decode completions, on the one initial layer.
Next == \/ Press(MouseDown) \/ Step(MouseMove, "move") \/ Step(MouseUp, "release")
        \/ Step(MouseLeave, "leave")
        \/ Press(TouchStart) \/ Step(TouchMove, "move") \/ Step(TouchEnd, "release")
        \/ Step(handleToolChange, "config")
        \/ Step(undo, "undo") \/ Step(redo, "redo") \/ Step(ImgOnload, "onload")

Spec == Init /\ [][Next]_vars

\* The same on several layers with the brush: addLayer, the layer buttons and
\* clear join in; the history variables stay as they are.
Quiet(A) ==
  A /\ Bounded /\ UNCHANGED <<lastCmd, nGestures, phase, recorded, latest>>

QuietPress(A) ==
  /\ nGestures < MaxGestures
  /\ A /\ Bounded
  /\ nGestures' = nGestures + 1
  /\ UNCHANGED <<lastCmd, phase, recorded, latest>>

NextLayers ==
  \/ QuietPress(MouseDown) \/ Quiet(MouseMove) \/ Quiet(MouseUp)
  \/ Quiet(addLayer) \/ Quiet(SelectLayer) \/ Quiet(clearCanvas)
  \/ Quiet(undo) \/ Quiet(redo) \/ Quiet(ImgOnload)

SpecLayers == Init /\ [][NextLayers]_vars

\* The command surface: selectLayer is called with any integer.
NextApi ==
  \/ QuietPress(MouseDown) \/ Quiet(MouseMove) \/ Quiet(MouseUp)
  \/ Quiet(addLayer) \/ Step(SelectLayerAny, "selectLayer") \/ Quiet(clearCanvas)
  \/ Quiet(undo) \/ Quiet(redo) \/ Quiet(ImgOnload)

SpecApi == Init /\ [][NextApi]_vars

\* The round trip: gestures on the one layer, then undo and redo only.  phase
\* is "undos" while only undo has been called since the gestures, "redos"
\* while only redo has been called since the Undo Stack was emptied by undo.
RtPress(A) ==
  /\ phase = "gestures"
  /\ nGestures < MaxGestures
  /\ A /\ Bounded
  /\ nGestures' = nGestures + 1
  /\ UNCHANGED <<lastCmd, phase, recorded, latest>>

RtGesture(A) ==
  /\ phase = "gestures"
  /\ A /\ Bounded
  /\ recorded' = history'
  /\ UNCHANGED <<lastCmd, nGestures, phase, latest>>

RtUndo ==
  /\ ~isDrawing
  /\ history # <<>>
  /\ undo /\ Bounded
  /\ phase' = IF phase \in {"gestures", "undos"} THEN "undos" ELSE "mixed"
  /\ latest' = IF Loads(UndoSrc(history')) THEN UndoSrc(history') ELSE latest
  /\ UNCHANGED <<lastCmd, nGestures, recorded>>

RtRedo ==
  /\ redoStack # <<>>
  /\ redo /\ Bounded
  /\ phase' = IF (phase = "undos" /\ history = <<>>) \/ phase = "redos" THEN "redos" ELSE "mixed"
  /\ latest' = IF Loads(RedoNext(redoStack)) THEN RedoNext(redoStack) ELSE latest
  /\ UNCHANGED <<lastCmd, nGestures, recorded>>

NextRoundTrip ==
  \/ RtPress(MouseDown) \/ RtGesture(MouseMove) \/ RtGesture(MouseUp)
  \/ RtGesture(handleToolChange)
  \/ RtUndo \/ RtRedo \/ Quiet(ImgOnload)

SpecRoundTrip == Init /\ [][NextRoundTrip]_vars

\* The layer commands with lastCmd recording them, on up to MaxLayers layers:
\* brush gestures, addLayer, the layer buttons, clear, undo and the decode
\* completions.
BoundedLayers ==
  /\ Len(canvas') <= MaxOps
  /\ Len(path') <= MaxPath
  /\ Len(pending') <= MaxPending
  /\ Len(heap') <= MaxLayers

\* phase is "selected" from a selectLayer that changed the active index until
\* the next command; decode completions are not commands.
LayerPhase(c) ==
  IF c = "selectLayer" /\ activeLayer' # activeLayer THEN "selected"
  ELSE IF c = "onload" THEN phase
  ELSE "gestures"

LayerStep(A, c) ==
  /\ A /\ BoundedLayers /\ Log(c)
  /\ phase' = LayerPhase(c)
  /\ UNCHANGED <<nGestures, recorded, latest>>

LayerPress(A) ==
  /\ nGestures < MaxGestures
  /\ A /\ BoundedLayers /\ Log("press")
  /\ nGestures' = nGestures + 1
  /\ phase' = LayerPhase("press")
  /\ UNCHANGED <<recorded, latest>>

NextLayerLog ==
  \/ LayerPress(MouseDown) \/ LayerStep(MouseMove, "move") \/ LayerStep(MouseUp, "release")
  \/ LayerStep(addLayer, "addLayer") \/ LayerStep(SelectLayer, "selectLayer")
  \/ LayerStep(clearCanvas, "clear")
  \/ LayerStep(undo, "undo") \/ LayerStep(ImgOnload, "onload")

SpecLayerLog == Init /\ [][NextLayerLog]_vars

\* undo and redo on two layers with lastCmd recording the commands: brush
\* gestures, addLayer, the layer buttons, undo, redo and the decode completions.
NextHistoryLayers ==
  \/ Press(MouseDown) \/ Step(MouseMove, "pointer") \/ Step(MouseUp, "pointer")
  \/ Step(addLayer, "addLayer") \/ Step(SelectLayer, "selectLayer")
  \/ Step(undo, "undo") \/ Step(redo, "redo") \/ Step(ImgOnload, "onload")

SpecHistoryLayers == Init /\ [][NextHistoryLayers]_vars

\* The same with decodes that can fail.
NextDecodeFail == NextHistoryLayers \/ Step(ImgOnerror, "onerror")

SpecDecodeFail == Init /\ [][NextDecodeFail]_vars

\* The shape tools on two layers: the user picks rectangle or circle once,
\* before the first gesture, and draws with it; gestures, addLayer, the layer buttons, undo, redo and the decode
\* completions, with lastCmd recording the commands.
PickShape == handleToolChange /\ nGestures = 0 /\ tool = "brush" /\ tool' \in {"rectangle", "circle"}

ShapeDown == MouseDown /\ tool \in {"rectangle", "circle"}

\* a button is clicked with the mouse, so not while the mouse drags on the canvas
Click(A) == A /\ ~isDrawing

NextShapeLayers ==
  \/ Press(ShapeDown) \/ Step(MouseMove, "move") \/ Step(MouseUp, "release")
  \/ Step(PickShape, "config")
  \/ Step(Click(addLayer), "addLayer") \/ Step(Click(SelectLayer), "selectLayer")
  \/ Step(Click(undo), "undo") \/ Step(Click(redo), "redo")
  \/ Step(ImgOnload, "onload")

SpecShapeLayers == Init /\ [][NextShapeLayers]_vars

\* The pointer sources on the one layer: mouse and touch events with more than
\* one button or finger, the tool buttons and the size slider.  lastCmd records
\* the command, whether a gesture was in progress, the event the handler was
\* called with, and origin, the point of the press that began the gesture.
LogPointer(c, e) ==
  lastCmd' = [cmd |-> c, dragging |-> isDrawing, redo |-> Len(redoStack), event |-> e,
              origin |-> IF c = "press" /\ ~isDrawing THEN getEventPos(e, startPos)
                         ELSE IF lastCmd.cmd = "mount" THEN Null
                         ELSE lastCmd.origin]

\* the rest of a step whose handler was called with event e
PointerStep(e, c) ==
  /\ Bounded /\ LogPointer(c, e)
  /\ UNCHANGED <<nGestures, phase, recorded, latest>>

PointerPress(events) ==
  /\ nGestures < MaxGestures
  /\ \E e \in events : startDrawing(e) /\ Bounded /\ LogPointer("press", e)
  /\ nGestures' = nGestures + 1
  /\ UNCHANGED <<phase, recorded, latest>>

PointerCmd(A, c) ==
  /\ A /\ Bounded /\ LogPointer(c, NoEvent)
  /\ UNCHANGED <<nGestures, phase, recorded, latest>>

NextPointer ==
  \/ PointerPress(PointerDownEvents)
  \/ (\E e \in PointerMoveEvents : draw(e) /\ PointerStep(e, "move"))
  \/ (\E e \in PointerUpEvents : endDrawing(e) /\ PointerStep(e, "release"))
  \/ (\E e \in PointerLeaveEvents : endDrawing(e) /\ PointerStep(e, "leave"))
  \/ PointerCmd(handleToolChange, "config")
  \/ PointerCmd(handleBrushSizeChange, "config")

SpecPointer == Init /\ [][NextPointer]_vars

\* The eraser on the one layer: the brush and the eraser, the size slider and
\* mouse gestures whose moves are sampled at two points; the surface holds up
\* to MaxErase paint calls.
BoundedEraser ==
  /\ Len(canvas') <= MaxErase
  /\ Len(path') <= MaxPath
  /\ Len(pending') <= MaxPending
  /\ Len(heap') <= MaxObjs

PickBrushOrEraser == handleToolChange /\ tool' \in {"brush", "eraser"}

EraserStep(e, c) ==
  /\ BoundedEraser /\ LogPointer(c, e)
  /\ UNCHANGED <<nGestures, phase, recorded, latest>>

EraserPress(events) ==
  /\ nGestures < MaxGestures
  /\ \E e \in events : startDrawing(e) /\ BoundedEraser /\ LogPointer("press", e)
  /\ nGestures' = nGestures + 1
  /\ UNCHANGED <<phase, recorded, latest>>

NextEraser ==
  \/ EraserPress(MouseDownEvents)
  \/ (\E e \in EraserMoveEvents : draw(e) /\ EraserStep(e, "move"))
  \/ (\E e \in MouseUpEvents : endDrawing(e) /\ EraserStep(e, "release"))
  \/ PointerCmd(PickBrushOrEraser, "config")
  \/ PointerCmd(handleBrushSizeChange, "config")

SpecEraser == Init /\ [][NextEraser]_vars

\* Mouse gestures on the one layer with handlers that are also called with
\* events that carry no coordinate source.
NextBare ==
  \/ PointerPress(MouseDownEvents)
  \/ (\E e \in MouseMoveEvents : draw(e) /\ PointerStep(e, "move"))
  \/ (\E e \in MouseUpEvents : endDrawing(e) /\ PointerStep(e, "release"))
  \/ PointerCmd(handleToolChange, "config")
  \/ PointerPress(BareEvents)
  \/ (\E e \in BareEvents : draw(e) /\ PointerStep(e, "move"))
  \/ (\E e \in BareEvents : endDrawing(e) /\ PointerStep(e, "release"))

SpecBare == Init /\ [][NextBare]_vars

\* ------------------------------------------------------------------ claims
\* C1: after N >= 1 committed gestures on the one layer and then N calls of
\* undo() and nothing else, the active layer's stored buffer and the visible
\* surface are the empty initial buffer.
C1_UndoAllGivesEmpty ==
  (phase = "undos" /\ history = <<>> /\ pending = <<>>)
    => (canvas = <<>> /\ ActiveData = EmptySrc)

\* C2: after N committed gestures, N calls of undo() and then N calls of redo()
\* with no gesture in between, the active layer's buffer is its state after the
\* Nth gesture, the Undo Stack holds the same N snapshots in the same order and
\* the Redo Stack is empty.
C2_RoundTrip ==
  (phase = "redos" /\ redoStack = <<>> /\ pending = <<>>)
    => /\ history = recorded
       /\ ActiveData = Last(recorded)
       /\ canvas = drawImage(Last(recorded))

\* C3: completing a gesture (the step from Dragging to Idle) leaves the Redo
\* Stack empty, whatever was undone before, and a redo() issued right after it
\* changes nothing.
C3_GestureClearsRedo ==
  [][/\ (isDrawing /\ ~isDrawing') => redoStack' = <<>>
     /\ (lastCmd.cmd \in {"release", "leave"} /\ lastCmd.dragging /\ ~isDrawing
           /\ lastCmd'.cmd = "redo")
          => UNCHANGED <<history, redoStack, heap, layers, canvas, pending>>]_vars

C3_Witness ==
  /\ lastCmd.cmd \in {"release", "leave"}
  /\ lastCmd.dragging
  /\ lastCmd.redo > 0
  /\ ~isDrawing
  /\ redoStack = <<>>

\* C4: undo() on an empty Undo Stack and redo() on an empty Redo Stack change
\* nothing: both stacks, every layer's buffer, the active index and the visible
\* surface stay as they are and no decode is started.
C4_EmptyStackNoop ==
  [][/\ (lastCmd'.cmd = "undo" /\ history = <<>>)
          => UNCHANGED <<history, redoStack, heap, layers, activeLayer, canvas, pending>>
     /\ (lastCmd'.cmd = "redo" /\ redoStack = <<>>)
          => UNCHANGED <<history, redoStack, heap, layers, activeLayer, canvas, pending>>]_vars

C4_Witness ==
  /\ lastCmd.cmd = "undo"
  /\ history = <<>>
  /\ redoStack = <<>>
  /\ canvas # <<>>

\* C5: every step from Dragging to Idle, by release or by pointer-leave and with
\* any tool, stores the encoding of the surface as the active layer's buffer,
\* appends exactly that encoding to the Undo Stack and clears the Redo Stack.
C5_EveryCompletionRecords ==
  [][(isDrawing /\ ~isDrawing')
       => /\ lastCmd'.cmd \in {"release", "leave"}
          /\ heap'[ActiveRef].data = toDataURL(canvas')
          /\ history' = Append(history, toDataURL(canvas'))
          /\ redoStack' = <<>>]_vars

C5_Witness ==
  /\ lastCmd.cmd = "leave"
  /\ lastCmd.dragging
  /\ ~isDrawing
  /\ tool = "rectangle"
  /\ Len(history) = 2
  /\ history[1] # history[2]

\* C6: pointer move, release and leave in the Idle state change nothing: the
\* surface, the layers, both stacks and the gesture state stay as they are.
C6_IdlePointerEventsNoop ==
  [][(lastCmd'.cmd \in {"move", "release", "leave"} /\ ~isDrawing)
       => UNCHANGED <<canvas, path, heap, layers, activeLayer, history, redoStack,
                      isDrawing, startPos, pending>>]_vars

C6_Witness ==
  /\ lastCmd.cmd = "leave"
  /\ ~lastCmd.dragging
  /\ history # <<>>
  /\ redoStack # <<>>

\* C7: decode completions are applied in the order the restores were issued:
\* once every pending decode has completed, the visible surface and the active
\* layer's buffer hold the snapshot of the most recently issued restore.
C7_LatestRestoreWins ==
  (phase # "gestures" /\ pending = <<>> /\ Loads(latest))
    => (canvas = drawImage(latest) /\ ActiveData = latest)

\* C8: exactly one layer is active: 0 <= activeLayer < number of layers.
C8_ActiveLayerInRange == InRange(layers, activeLayer)

\* C9: the layer collection is append-only: no step removes a layer or moves
\* one to another position.
C9_LayersAppendOnly ==
  [][Len(layers') >= Len(layers) /\ SubSeq(layers', 1, Len(layers)) = layers]_vars

\* C10: selectLayer(index) with an index outside 0 .. layerCount - 1 is rejected
\* or clamped: afterwards the active index refers to an existing layer and
\* nothing has indexed outside the layer sequence.
C10_SelectOutOfRangeRejected ==
  lastCmd.cmd = "selectLayer" => (InRange(layers, activeLayer) /\ ~threw)

\* C11: addLayer() with n layers appends exactly one layer with id n + 1, name
\* "Layer n+1" and an empty buffer, and leaves the active index, the existing
\* layers and their buffers, the Undo Stack and the Redo Stack unchanged (so two
\* calls from the initial state give 3 layers with active index 0).
C11_AddLayerAppendsOne ==
  [][lastCmd'.cmd = "addLayer"
       => /\ Len(layers') = Len(layers) + 1
          /\ SubSeq(layers', 1, Len(layers)) = layers
          /\ heap'[Last(layers')] = [id |-> Len(layers) + 1,
                                     name |-> LayerName(Len(layers) + 1),
                                     data |-> EmptySrc]
          /\ \A r \in 1 .. Len(heap) : heap'[r] = heap[r]
          /\ UNCHANGED <<activeLayer, history, redoStack>>]_vars

C11_Witness ==
  /\ lastCmd.cmd = "addLayer"
  /\ Len(layers) = 3
  /\ activeLayer = 0
  /\ history # <<>>

\* C12: clearActiveLayer() sets the active layer's buffer and the visible
\* surface to empty and leaves the Undo Stack, the Redo Stack, the active index,
\* the layer sequence and every other layer's buffer unchanged.
C12_ClearFrame ==
  [][lastCmd'.cmd = "clear"
       => /\ canvas' = <<>>
          /\ InRange(layers, activeLayer)
          /\ heap' = SetData(heap, ActiveRef, EmptySrc)
          /\ UNCHANGED <<layers, activeLayer, history, redoStack, threw>>]_vars

\* C13: undo() on an Undo Stack with at least two entries removes only the most
\* recent entry and pushes the active layer's buffer as it was before the call
\* onto the Redo Stack; when its decode completes as the very next step, the
\* visible surface and the active layer's buffer equal the new top of the Undo
\* Stack.
C13_UndoRestoresNewTop ==
  [][/\ (lastCmd'.cmd = "undo" /\ Len(history) >= 2)
          => /\ history' = Front(history)
             /\ InRange(layers, activeLayer)
             /\ redoStack' = <<ActiveData>> \o redoStack
     /\ (lastCmd.cmd = "undo" /\ lastCmd'.cmd = "onload" /\ history # <<>>
           /\ pending # <<>> /\ pending' = Front(pending)
           /\ Last(pending).kind = "undo" /\ Last(pending).src = Last(history))
          => /\ canvas' = drawImage(Last(history))
             /\ InRange(layers', activeLayer')
             /\ heap'[layers'[activeLayer' + 1]].data = Last(history)]_vars

\* C14: redo() on a non-empty Redo Stack removes the oldest queued entry (the
\* one pushed by the earliest undo still queued; undo pushes at the front, so
\* it is the last element), appends that entry to the Undo Stack and starts the
\* restore from it.
C14_RedoTakesOldest ==
  [][(lastCmd'.cmd = "redo" /\ redoStack # <<>>)
       => /\ redoStack' = Front(redoStack)
          /\ history' = Append(history, Last(redoStack))
          /\ Loads(Last(redoStack))
               => (pending' # <<>> /\ Last(pending').src = Last(redoStack))]_vars

\* C15: the stacks are global: selectLayer and addLayer leave both unchanged,
\* and undo() issued while layer B is active restores the snapshot below the
\* top of the Undo Stack into layer B's buffer, whichever layer was active when
\* that snapshot was recorded.
C15_StacksGlobal ==
  [][/\ lastCmd'.cmd \in {"selectLayer", "addLayer"} => UNCHANGED <<history, redoStack>>
     /\ (lastCmd'.cmd = "undo" /\ Len(history) >= 2 /\ InRange(layers, activeLayer)
           /\ Loads(history[Len(history) - 1]))
          => pending' = Append(pending, [kind |-> "undo", src |-> history[Len(history) - 1],
                                         layers |-> layers, activeLayer |-> activeLayer])
     /\ lastCmd'.cmd = "onload"
          => \A i \in 1 .. Len(pending) :
               (pending' = Remove(pending, i) /\ pending[i].kind = "undo")
                 => heap'[pending[i].layers[pending[i].activeLayer + 1]].data = pending[i].src]_vars

\* both gestures were drawn on layer 1, layer 2 is active and holds the first snapshot
C15_Witness ==
  /\ lastCmd.cmd = "onload"
  /\ Len(layers) = 2
  /\ activeLayer = 1
  /\ Len(history) = 1
  /\ history[1].ops # <<>>
  /\ Len(heap[layers[1]].data.ops) = 2
  /\ SubSeq(heap[layers[1]].data.ops, 1, 1) = history[1].ops
  /\ heap[layers[2]].data = history[1]

\* C16: a layer's buffer changes only while that layer is the active layer: in
\* every step that changes the data of a layer object, that object is the one
\* at the active index, also when the step is a decode callback.
C16_MutatedOnlyWhileActive ==
  [][\A r \in 1 .. Len(heap) :
       heap'[r].data # heap[r].data
         => (InRange(layers, activeLayer) /\ layers[activeLayer + 1] = r)]_vars

\* C17: after selectLayer(i) with a valid i other than the active index the
\* previous layer's content is no longer visible, and once all pending decodes
\* have completed with no command in between, the visible surface equals layer
\* i's stored buffer (blank when that buffer is empty).
C17_SurfaceShowsSelectedLayer ==
  /\ (lastCmd.cmd = "selectLayer" /\ phase = "selected") => canvas = <<>>
  /\ (phase = "selected" /\ pending = <<>>)
       => (InRange(layers, activeLayer) /\ canvas = drawImage(ActiveData))

\* C18: when the decode of a snapshot fails, the visible surface and every
\* layer's buffer stay as they were when the restore was issued and no fault
\* propagates; so it is for a restore whose source is the empty string, whose
\* load event never fires either.
C18_DecodeFailureDropped ==
  [][/\ lastCmd'.cmd = "onerror"
          => UNCHANGED <<canvas, heap, layers, activeLayer, threw, mounted>>
     /\ (lastCmd'.cmd = "undo" /\ history # <<>> /\ InRange(layers, activeLayer)
           /\ ~Loads(UndoSrc(history')))
          => UNCHANGED <<canvas, heap, layers, activeLayer, pending, threw, mounted>>
     /\ (lastCmd'.cmd = "redo" /\ redoStack # <<>> /\ ~Loads(RedoNext(redoStack)))
          => UNCHANGED <<canvas, heap, layers, activeLayer, pending, threw, mounted>>]_vars

\* an undo whose decode failed: the surface and the buffer still show the undone state
C18_Witness ==
  /\ lastCmd.cmd = "onerror"
  /\ pending = <<>>
  /\ history # <<>>
  /\ InRange(layers, activeLayer)
  /\ ActiveData # Last(history)
  /\ canvas # <<>>
  /\ canvas = drawImage(ActiveData)

\* C19: with the rectangle or circle tool a move during Dragging never changes
\* the layers' buffers, the Undo Stack or the Redo Stack; a press followed at
\* once by a release records exactly one history entry; and a move after the
\* release changes nothing in the committed buffer.
C19_ShapePreviewNeverPersists ==
  [][/\ (lastCmd'.cmd = "move" /\ isDrawing /\ tool \in {"rectangle", "circle"})
          => UNCHANGED <<heap, layers, history, redoStack>>
     /\ (lastCmd.cmd = "press" /\ lastCmd'.cmd = "release" /\ tool \in {"rectangle", "circle"})
          => (Len(history') = Len(history) + 1 /\ ~isDrawing')
     /\ (lastCmd'.cmd = "move" /\ ~isDrawing /\ tool \in {"rectangle", "circle"})
          => UNCHANGED <<heap, layers, history, redoStack, canvas>>]_vars

\* C20: while Dragging with the rectangle or circle tool each move makes the
\* visible surface show the shape spanned by the anchor and the current point
\* (the rectangle with these corners, or the circle centred at the anchor
\* through the point), so the surface differs from the committed buffer.
C20_ShapePreviewShown ==
  [][(lastCmd'.cmd = "move" /\ Dragging /\ tool \in {"rectangle", "circle"})
       => \E e \in MouseMoveEvents \cup TouchMoveEvents :
            LET pos == getEventPos(e, startPos) IN
            /\ canvas' # <<>>
            /\ Last(canvas') = IF tool = "rectangle"
                                 THEN StrokeRectOp(startPos, pos)
                                 ELSE StrokeOp(ArcPath(startPos, pos))
            /\ canvas' # drawImage(ActiveData)]_vars

\* C21: with the rectangle or circle tool the shape committed by a release or
\* a leave is spanned by the anchor and the point of that event itself (for a
\* touch, the point where the finger lifted): the rectangle with these corners,
\* or the circle centred at the anchor through the point; and the gesture adds
\* exactly one entry to the Undo Stack.
C21_ShapeCommittedAtReleasePoint ==
  [][(lastCmd'.cmd \in {"release", "leave"} /\ Dragging /\ tool \in {"rectangle", "circle"})
       => LET e == lastCmd'.event
              c == IF e.type = "touch" THEN e.changedTouches[1] ELSE e.client
              p == <<c[1] - Rect.left, c[2] - Rect.top>>
          IN /\ canvas' = Paint(canvas, IF tool = "rectangle"
                                          THEN StrokeRectOp(startPos, p)
                                          ELSE StrokeOp(ArcPath(startPos, p)))
             /\ Len(history') = Len(history) + 1]_vars

\* C22: with the eraser tool the press itself erases: a press at point p
\* clears the square of side brushSize centred at p on the surface, so a press
\* followed by a release with no move in between has cleared that square.
C22_EraserPressErases ==
  [][(lastCmd'.cmd = "press" /\ tool = "eraser")
       => canvas' = Paint(canvas, ClearRectOp(getEventPos(lastCmd'.event, startPos), brushSize))]_vars

\* C23: an eraser move at point (x, y) with size s in 1 .. 30 clears exactly
\* the axis-aligned square with corner (x - s/2, y - s/2) and side s and
\* nothing else: a move makes one clearRect call for its own point and paints
\* nothing between two sampled points (coordinates in half-pixel units).
C23_EraserClearsExactSquare ==
  [][(lastCmd'.cmd = "move" /\ Dragging /\ tool = "eraser")
       => LET p == getEventPos(lastCmd'.event, startPos)
              s == brushSize
          IN /\ s \in MinBrushSize .. maxBrushSize
             /\ IF canvas = <<>>
                  THEN canvas' = <<>>
                  ELSE /\ Len(canvas') = Len(canvas) + 1
                       /\ SubSeq(canvas', 1, Len(canvas)) = canvas
                       /\ Last(canvas').op = "clearRect"
                       /\ Last(canvas').pts[1].p = <<2 * p[1] - s, 2 * p[2] - s>>
                       /\ Last(canvas').pts[2].p = <<2 * s, 2 * s>>]_vars

\* a stroke erased at two sampled points with the smallest size
C23_Witness ==
  /\ lastCmd.cmd = "move"
  /\ tool = "eraser"
  /\ brushSize = MinBrushSize
  /\ Len(canvas) = 3
  /\ canvas[2].op = "clearRect"
  /\ canvas[3].op = "clearRect"
  /\ canvas[2].pts[1].p # canvas[3].pts[1].p

\* C24: for every touch-end event that ends a gesture the position the release
\* handler gets from getEventPos is that of the first entry of the event's
\* changedTouches (the finger that lifted), also when other fingers are still
\* on the surface.
C24_TouchEndUsesChangedTouch ==
  (lastCmd.cmd = "release" /\ lastCmd.dragging /\ lastCmd.event.type = "touch"
     /\ Len(lastCmd.event.changedTouches) > 0)
    => getEventPos(lastCmd.event, startPos)
         = <<lastCmd.event.changedTouches[1][1] - Rect.left,
             lastCmd.event.changedTouches[1][2] - Rect.top>>

\* C25: for an event with no coordinate source (no active touch, no changed
\* touch, no client coordinates, or no event at all) getEventPos gives the
\* anchor of the gesture in progress, and (0,0) when there is none: a press
\* stores that point as the anchor, a move extends the stroke to it or erases
\* at it, a release commits the shape to it; and computing it sets no state: a
\* move or release in Idle changes nothing and a press changes the gesture
\* state only.
C25_NoCoordinatesFallsBackToAnchor ==
  [][(lastCmd'.cmd \in {"press", "move", "release"} /\ lastCmd'.event \in BareEvents)
       => LET fb == IF isDrawing THEN startPos ELSE <<0, 0>> IN
          /\ getEventPos(lastCmd'.event, startPos) = fb
          /\ lastCmd'.cmd = "press"
               => /\ startPos' = fb
                  /\ UNCHANGED <<tool, brushSize, heap, layers, activeLayer, history,
                                 redoStack, canvas, pending>>
          /\ (lastCmd'.cmd = "move" /\ isDrawing /\ tool = "brush")
               => path' = Append(path, PathPt(fb))
          /\ (lastCmd'.cmd = "move" /\ isDrawing /\ tool = "eraser")
               => canvas' = Paint(canvas, ClearRectOp(fb, brushSize))
          /\ (lastCmd'.cmd = "release" /\ isDrawing /\ tool = "rectangle")
               => canvas' = Paint(canvas, StrokeRectOp(startPos, fb))
          /\ (lastCmd'.cmd = "release" /\ isDrawing /\ tool = "circle")
               => canvas' = Paint(canvas, StrokeOp(ArcPath(startPos, fb)))
          /\ (lastCmd'.cmd \in {"move", "release"} /\ ~isDrawing)
               => UNCHANGED prog]_vars

\* a press without coordinates during a gesture anchored away from (0,0)
C25_Witness ==
  /\ lastCmd.cmd = "press"
  /\ lastCmd.event \in BareEvents
  /\ lastCmd.dragging
  /\ startPos = lastCmd.origin
  /\ startPos # <<0, 0>>
  /\ canvas # <<>>

\* C26: the tool machine goes from Idle to Dragging by a press only and back
\* by a release or leave only, and the anchor of a gesture is fixed by the
\* press that began it: a press received while Dragging leaves the anchor as it
\* is, so the anchor a release or leave works with is the point of the press
\* that took the machine from Idle to Dragging.
C26_AnchorFixedByFirstPress ==
  [][/\ (~isDrawing /\ isDrawing') => lastCmd'.cmd = "press"
     /\ (isDrawing /\ ~isDrawing') => lastCmd'.cmd \in {"release", "leave"}
     /\ (lastCmd'.cmd = "press" /\ isDrawing) => startPos' = startPos
     /\ (lastCmd'.cmd \in {"release", "leave"} /\ isDrawing)
          => startPos = lastCmd.origin]_vars

\* C27: in every reachable state with no gesture in progress and no decode
\* pending, the visible surface shows the active layer's stored buffer (blank
\* for an empty buffer), whatever gestures, undo, redo, clear, addLayer,
\* selectLayer and decode completions came before.
C27_SurfaceEqualsActiveBuffer ==
  (~isDrawing /\ pending = <<>> /\ InRange(layers, activeLayer))
    => canvas = drawImage(ActiveData)

\* C28: in every reachable state every entry of the Undo Stack and of the
\* Redo Stack is a snapshot captured at a gesture completion, never the empty
\* encoding, also after clear, addLayer and selectLayer mixed with undo and
\* redo.  (toDataURL is called at gesture completion only, so every PNG in the
\* model is such a snapshot.)
C28_StackEntriesAreSnapshots ==
  /\ \A i \in 1 .. Len(history) : history[i].kind = "png"
  /\ \A i \in 1 .. Len(redoStack) : redoStack[i].kind = "png"

\* C29: undo() on a non-empty Undo Stack shortens it by one and lengthens the
\* Redo Stack by one, redo() on a non-empty Redo Stack does the reverse, and no
\* step other than these and a gesture completion changes either length; so
\* undo, redo, clear, addLayer and selectLayer keep the sum of the two lengths.
C29_StackLengthSumKept ==
  [][/\ (lastCmd'.cmd = "undo" /\ history # <<>>)
          => /\ Len(history') = Len(history) - 1
             /\ Len(redoStack') = Len(redoStack) + 1
     /\ (lastCmd'.cmd = "redo" /\ redoStack # <<>>)
          => /\ Len(redoStack') = Len(redoStack) - 1
             /\ Len(history') = Len(history) + 1
     /\ (Len(history') # Len(history) \/ Len(redoStack') # Len(redoStack))
          => (lastCmd'.cmd \in {"undo", "redo"} \/ (isDrawing /\ ~isDrawing'))
     /\ lastCmd'.cmd \in {"undo", "redo", "clear", "addLayer", "selectLayer"}
          => Len(history') + Len(redoStack') = Len(history) + Len(redoStack)]_vars

====
